---- MODULE Spec2Model ----
(***************************************************************************)
(* Model of linebot/http_client.py: the requests-backed transport          *)
(* (RequestsHttpClient.get / post and its default timeout) and the two     *)
(* multi-step facade operations sendImage and sendImageWithURL.            *)
(*                                                                         *)
(* File semantics are those of CPython 2 on a POSIX system, the platform   *)
(* the facade is written for: open(path, 'w') creates or truncates the     *)
(* file and writes the bytes unchanged, every writer keeps its own file    *)
(* offset, and a write beyond the end of a file that another writer has    *)
(* truncated fills the gap with zero bytes.  A failure of the copy (an     *)
(* I/O error, or a platform on which the copy is rejected) is the action   *)
(* SWU_CopyFail.                                                           *)
(***************************************************************************)
EXTENDS Integers, Sequences, FiniteSets, TLC

\* ---------------------------------------------------------------- bounds
MaxBodyLen == 2          \* chunks in a downloaded body
MaxTransportCalls == 2   \* get/post calls recorded on the transport

\* ------------------------------------------------------ program constants
DEFAULT_TIMEOUT == 5     \* HttpClient.DEFAULT_TIMEOUT
RandMax == 9             \* randint(0, 9)
StatusOK == 200          \* r.status_code == 200
StatusCreated == 201     \* r.status_code != 201

\* ------------------------------------------------------------ value sets
None == "None"
Procs == {1, 2}          \* two callers, each making one facade call
Paths == 0..RandMax      \* the names pythonLine-0.data .. pythonLine-9.data
SendImagePaths == {0, 1} \* the paths a caller hands to sendImage directly
NoFile == "NoFile"
ChunkValues == {1, 2}
Bodies == {[i \in 1..n |-> v] : n \in 0..MaxBodyLen, v \in ChunkValues}
DownloadStatuses == {StatusOK, 204, 404}
UploadStatuses == {StatusCreated, StatusOK, 500}
\* a timeout is None, a scalar <<t>> or a (connect, read) pair <<c, r>>
NoTimeout == <<>>
Timeouts == {<<0>>, <<DEFAULT_TIMEOUT>>, <<1, 2>>}
TimeoutArgs == Timeouts \cup {NoTimeout}

UploadFailure == "Upload image failure."
DownloadFailure == "Download image failure."
TransportFailure == "TransportFailure"
IOError == "IOError"

VARIABLES
    timeout,      \* self.timeout of the transport instance
    constructed,  \* the timeout argument the instance was constructed with
    tcalls,       \* the requests the transport handed to the HTTP library
    pc,           \* position of each caller inside its facade call
    op,           \* which facade operation the caller runs
    path,         \* local variable path
    dlStatus,     \* r.status_code of the streamed GET
    stream,       \* r.raw: the chunks not yet read
    downloaded,   \* the whole body the GET served to this call
    wOpen,        \* the write handle f is open
    wOffset,      \* file offset of the write handle
    M_id,         \* M2.id
    rOpen,        \* files['file'] has been opened
    size,         \* params['size']
    upStatus,     \* r.status_code of the media POST
    siCalled,     \* number of sendImage invocations of this call
    siResult,     \* outcome of sendImage
    result,       \* outcome of the facade call as seen by its caller
    log,          \* the requests this call has issued, in order
    files,        \* the temp directory: path -> content
    messages,     \* placeholder messages existing on the server
    nextId        \* next identifier the server issues

tvars == <<timeout, constructed, tcalls>>
lvars == <<pc, op, path, dlStatus, stream, downloaded, wOpen, wOffset, M_id,
           rOpen, size, upStatus, siCalled, siResult, result, log>>
gvars == <<files, messages, nextId>>
vars == <<timeout, constructed, tcalls, pc, op, path, dlStatus, stream,
          downloaded, wOpen, wOffset, M_id, rOpen, size, upStatus, siCalled,
          siResult, result, log, files, messages, nextId>>

\* ============================================================= transport

\* HttpClient.__init__: self.timeout = timeout
HttpClient_init(t) == t

\* if timeout is None: timeout = self.timeout
EffectiveTimeout(arg, selfTimeout) ==
    IF arg = NoTimeout THEN selfTimeout ELSE arg

Request(method, arg, eff) == [method |-> method, arg |-> arg, timeout |-> eff]

getMutating(arg) ==
    /\ Len(tcalls) < MaxTransportCalls
    /\ tcalls' = Append(tcalls, Request("GET", arg, EffectiveTimeout(arg, timeout)))
    /\ timeout' = EffectiveTimeout(arg, timeout)
    /\ UNCHANGED <<constructed, lvars, gvars>>

\* RequestsHttpClient.get
get(arg) ==
    /\ Len(tcalls) < MaxTransportCalls
    /\ tcalls' = Append(tcalls, Request("GET", arg, EffectiveTimeout(arg, timeout)))
    /\ UNCHANGED <<timeout, constructed, lvars, gvars>>

\* RequestsHttpClient.post
post(arg) ==
    /\ Len(tcalls) < MaxTransportCalls
    /\ tcalls' = Append(tcalls, Request("POST", arg, EffectiveTimeout(arg, timeout)))
    /\ UNCHANGED <<timeout, constructed, lvars, gvars>>

\* ================================================================ facade

Entry(kind, oid, sz, content) ==
    [kind |-> kind, oid |-> oid, size |-> sz, file |-> content]

\* the write of one chunk at the handle's own offset; a gap left by another
\* writer's truncation reads back as zero bytes
WriteAt(content, off, chunk) ==
    LET padded == IF Len(content) < off
                  THEN content \o [i \in 1..(off - Len(content)) |-> 0]
                  ELSE content
    IN IF Len(padded) = off THEN Append(padded, chunk)
       ELSE [padded EXCEPT ![off + 1] = chunk]

SWU_HandlerSwallow(r) == None

\* try: self.sendImage(to_, path)
\* except Exception as e: raise e
\* what sendImageWithURL hands its caller for the outcome r of sendImage; a
\* normal return falls off the end of the function, which returns None
SWU_Handler(r) == IF r = "True" THEN None ELSE r

\* the outcome r of sendImage reaches the caller of the facade call
SI_Leave(p, r) ==
    /\ siResult' = [siResult EXCEPT ![p] = r]
    /\ pc' = [pc EXCEPT ![p] = "done"]
    /\ result' = [result EXCEPT ![p] =
                    IF op[p] = "sendImageWithURL" THEN SWU_Handler(r) ELSE r]

\* ------------------------------------------------------ sendImageWithURL

\* path = '%s/pythonLine-%i.data' % (tempfile.gettempdir(), randint(0, 9))
SWU_Call(p) ==
    /\ pc[p] = "idle"
    /\ op' = [op EXCEPT ![p] = "sendImageWithURL"]
    /\ \E n \in Paths : path' = [path EXCEPT ![p] = n]
    /\ pc' = [pc EXCEPT ![p] = "get"]
    /\ result' = [result EXCEPT ![p] = "running"]
    /\ UNCHANGED <<tvars, gvars, dlStatus, stream, downloaded, wOpen, wOffset,
                   M_id, rOpen, size, upStatus, siCalled, siResult, log>>

\* r = requests.get(url, stream=True); the body of a response that is not
\* 200 is never read
SWU_Get(p) ==
    /\ pc[p] = "get"
    /\ \/ /\ pc' = [pc EXCEPT ![p] = "done"]
          /\ result' = [result EXCEPT ![p] = TransportFailure]
          /\ UNCHANGED <<dlStatus, stream, downloaded, log>>
       \/ \E st \in DownloadStatuses :
          \E b \in (IF st = StatusOK THEN Bodies ELSE {<<>>}) :
             /\ dlStatus' = [dlStatus EXCEPT ![p] = st]
             /\ stream' = [stream EXCEPT ![p] = b]
             /\ downloaded' = [downloaded EXCEPT ![p] = b]
             /\ log' = [log EXCEPT ![p] = Append(@, Entry("GET", 0, 0, <<>>))]
             /\ pc' = [pc EXCEPT ![p] = "status"]
             /\ UNCHANGED result
    /\ UNCHANGED <<tvars, gvars, op, path, wOpen, wOffset, M_id, rOpen, size,
                   upStatus, siCalled, siResult>>

SWU_CheckStatusProceed(p) ==
    /\ pc[p] = "status"
    /\ files' = [files EXCEPT ![path[p]] = <<>>]
    /\ wOpen' = [wOpen EXCEPT ![p] = TRUE]
    /\ pc' = [pc EXCEPT ![p] = "copy"]
    /\ UNCHANGED <<tvars, messages, nextId, op, path, dlStatus, stream,
                   downloaded, wOffset, M_id, rOpen, size, upStatus, siCalled,
                   siResult, result, log>>

SWU_CheckStatusOpenFirst(p) ==
    /\ pc[p] = "status"
    /\ files' = [files EXCEPT ![path[p]] = <<>>]
    /\ IF dlStatus[p] = StatusOK
       THEN /\ wOpen' = [wOpen EXCEPT ![p] = TRUE]
            /\ pc' = [pc EXCEPT ![p] = "copy"]
            /\ UNCHANGED result
       ELSE /\ pc' = [pc EXCEPT ![p] = "done"]
            /\ result' = [result EXCEPT ![p] = DownloadFailure]
            /\ UNCHANGED wOpen
    /\ UNCHANGED <<tvars, messages, nextId, op, path, dlStatus, stream,
                   downloaded, wOffset, M_id, rOpen, size, upStatus, siCalled,
                   siResult, log>>

\* if r.status_code == 200: with open(path, 'w') as f: ...
\* else: raise Exception('Download image failure.')
SWU_CheckStatus(p) ==
    /\ pc[p] = "status"
    /\ IF dlStatus[p] = StatusOK
       THEN /\ files' = [files EXCEPT ![path[p]] = <<>>]
            /\ wOpen' = [wOpen EXCEPT ![p] = TRUE]
            /\ pc' = [pc EXCEPT ![p] = "copy"]
            /\ UNCHANGED result
       ELSE /\ pc' = [pc EXCEPT ![p] = "done"]
            /\ result' = [result EXCEPT ![p] = DownloadFailure]
            /\ UNCHANGED <<files, wOpen>>
    /\ UNCHANGED <<tvars, messages, nextId, op, path, dlStatus, stream,
                   downloaded, wOffset, M_id, rOpen, size, upStatus, siCalled,
                   siResult, log>>

\* shutil.copyfileobj(r.raw, f): one chunk read from the stream and written
SWU_Copy(p) ==
    /\ pc[p] = "copy"
    /\ stream[p] # <<>>
    /\ files' = [files EXCEPT ![path[p]] = WriteAt(@, wOffset[p], Head(stream[p]))]
    /\ wOffset' = [wOffset EXCEPT ![p] = @ + 1]
    /\ stream' = [stream EXCEPT ![p] = Tail(@)]
    /\ UNCHANGED <<tvars, messages, nextId, pc, op, path, dlStatus,
                   downloaded, wOpen, M_id, rOpen, size, upStatus, siCalled,
                   siResult, result, log>>

\* a read of the stream or a write of the file raises: the with block
\* closes f and the exception leaves sendImageWithURL
SWU_CopyFail(p) ==
    /\ pc[p] = "copy"
    /\ stream[p] # <<>>
    /\ wOpen' = [wOpen EXCEPT ![p] = FALSE]
    /\ pc' = [pc EXCEPT ![p] = "done"]
    /\ result' = [result EXCEPT ![p] = IOError]
    /\ UNCHANGED <<tvars, gvars, op, path, dlStatus, stream, downloaded,
                   wOffset, M_id, rOpen, size, upStatus, siCalled, siResult, log>>

SWU_CloseLeaveOpen(p) ==
    /\ pc[p] = "copy"
    /\ stream[p] = <<>>
    /\ siCalled' = [siCalled EXCEPT ![p] = @ + 1]
    /\ pc' = [pc EXCEPT ![p] = "si_send"]
    /\ UNCHANGED <<tvars, gvars, op, path, dlStatus, stream, downloaded, wOpen,
                   wOffset, M_id, rOpen, size, upStatus, siResult, result, log>>

\* end of the stream: the with block closes f, then
\* try: self.sendImage(to_, path)
SWU_Close(p) ==
    /\ pc[p] = "copy"
    /\ stream[p] = <<>>
    /\ wOpen' = [wOpen EXCEPT ![p] = FALSE]
    /\ siCalled' = [siCalled EXCEPT ![p] = @ + 1]
    /\ pc' = [pc EXCEPT ![p] = "si_send"]
    /\ UNCHANGED <<tvars, gvars, op, path, dlStatus, stream, downloaded,
                   wOffset, M_id, rOpen, size, upStatus, siResult, result, log>>

\* ------------------------------------------------------------- sendImage

\* a direct call sendImage(to_, path) with a path of the caller's choice
SI_Call(p) ==
    /\ pc[p] = "idle"
    /\ op' = [op EXCEPT ![p] = "sendImage"]
    /\ \E n \in SendImagePaths : path' = [path EXCEPT ![p] = n]
    /\ siCalled' = [siCalled EXCEPT ![p] = @ + 1]
    /\ pc' = [pc EXCEPT ![p] = "si_send"]
    /\ result' = [result EXCEPT ![p] = "running"]
    /\ UNCHANGED <<tvars, gvars, dlStatus, stream, downloaded, wOpen, wOffset,
                   M_id, rOpen, size, upStatus, siResult, log>>

\* M2 = self._client.sendMessage(0, M); M_id = M2.id
SI_SendMessage(p) ==
    /\ pc[p] = "si_send"
    /\ \/ /\ SI_Leave(p, TransportFailure)
          /\ UNCHANGED <<messages, nextId, M_id, log>>
       \/ /\ messages' = messages \cup {nextId}
          /\ nextId' = nextId + 1
          /\ M_id' = [M_id EXCEPT ![p] = nextId]
          /\ log' = [log EXCEPT ![p] = Append(@, Entry("MESSAGE", nextId, 0, <<>>))]
          /\ pc' = [pc EXCEPT ![p] = "si_open"]
          /\ UNCHANGED <<siResult, result>>
    /\ UNCHANGED <<tvars, files, op, path, dlStatus, stream, downloaded,
                   wOpen, wOffset, rOpen, size, upStatus, siCalled>>

\* files = {'file': open(path, 'rb')}
SI_OpenFile(p) ==
    /\ pc[p] = "si_open"
    /\ IF files[path[p]] = NoFile
       THEN /\ SI_Leave(p, IOError)
            /\ UNCHANGED rOpen
       ELSE /\ rOpen' = [rOpen EXCEPT ![p] = TRUE]
            /\ pc' = [pc EXCEPT ![p] = "si_size"]
            /\ UNCHANGED <<siResult, result>>
    /\ UNCHANGED <<tvars, gvars, op, path, dlStatus, stream, downloaded, wOpen,
                   wOffset, M_id, size, upStatus, siCalled, log>>

\* 'size': len(open(path, 'rb').read()); the file opened one statement
\* earlier still exists, since nothing removes a file
SI_Size(p) ==
    /\ pc[p] = "si_size"
    /\ size' = [size EXCEPT ![p] = Len(files[path[p]])]
    /\ pc' = [pc EXCEPT ![p] = "si_post"]
    /\ UNCHANGED <<tvars, gvars, op, path, dlStatus, stream, downloaded, wOpen,
                   wOffset, M_id, rOpen, upStatus, siCalled, siResult, result,
                   log>>

SI_PostLatestId(p) ==
    /\ pc[p] = "si_post"
    /\ \/ /\ SI_Leave(p, TransportFailure)
          /\ UNCHANGED <<upStatus, log>>
       \/ \E st \in UploadStatuses :
             /\ upStatus' = [upStatus EXCEPT ![p] = st]
             /\ log' = [log EXCEPT ![p] =
                          Append(@, Entry("MEDIA", nextId - 1, size[p], files[path[p]]))]
             /\ pc' = [pc EXCEPT ![p] = "si_check"]
             /\ UNCHANGED <<siResult, result>>
    /\ UNCHANGED <<tvars, gvars, op, path, dlStatus, stream, downloaded, wOpen,
                   wOffset, M_id, rOpen, size, siCalled>>

\* r = self.post_content(upload.nhn, data=data, files=files): the file part
\* is read from the open handle when the request is sent
SI_Post(p) ==
    /\ pc[p] = "si_post"
    /\ \/ /\ SI_Leave(p, TransportFailure)
          /\ UNCHANGED <<upStatus, log>>
       \/ \E st \in UploadStatuses :
             /\ upStatus' = [upStatus EXCEPT ![p] = st]
             /\ log' = [log EXCEPT ![p] =
                          Append(@, Entry("MEDIA", M_id[p], size[p], files[path[p]]))]
             /\ pc' = [pc EXCEPT ![p] = "si_check"]
             /\ UNCHANGED <<siResult, result>>
    /\ UNCHANGED <<tvars, gvars, op, path, dlStatus, stream, downloaded, wOpen,
                   wOffset, M_id, rOpen, size, siCalled>>

SI_CheckNot200(p) ==
    /\ pc[p] = "si_check"
    /\ SI_Leave(p, IF upStatus[p] # StatusOK THEN UploadFailure ELSE "True")
    /\ UNCHANGED <<tvars, gvars, op, path, dlStatus, stream, downloaded, wOpen,
                   wOffset, M_id, rOpen, size, upStatus, siCalled, log>>

SI_CheckRollback(p) ==
    /\ pc[p] = "si_check"
    /\ SI_Leave(p, IF upStatus[p] # StatusCreated THEN UploadFailure ELSE "True")
    /\ messages' = IF upStatus[p] # StatusCreated
                   THEN messages \ {M_id[p]} ELSE messages
    /\ UNCHANGED <<tvars, files, nextId, op, path, dlStatus, stream,
                   downloaded, wOpen, wOffset, M_id, rOpen, size, upStatus,
                   siCalled, log>>

\* if r.status_code != 201: raise Exception('Upload image failure.')
\* return True
SI_Check(p) ==
    /\ pc[p] = "si_check"
    /\ SI_Leave(p, IF upStatus[p] # StatusCreated THEN UploadFailure ELSE "True")
    /\ UNCHANGED <<tvars, gvars, op, path, dlStatus, stream, downloaded, wOpen,
                   wOffset, M_id, rOpen, size, upStatus, siCalled, log>>

\* ======================================================== specifications

FacadeInit ==
    /\ pc = [p \in Procs |-> "idle"]
    /\ op = [p \in Procs |-> None]
    /\ path = [p \in Procs |-> 0]
    /\ dlStatus = [p \in Procs |-> 0]
    /\ stream = [p \in Procs |-> <<>>]
    /\ downloaded = [p \in Procs |-> <<>>]
    /\ wOpen = [p \in Procs |-> FALSE]
    /\ wOffset = [p \in Procs |-> 0]
    /\ M_id = [p \in Procs |-> 0]
    /\ rOpen = [p \in Procs |-> FALSE]
    /\ size = [p \in Procs |-> 0]
    /\ upStatus = [p \in Procs |-> 0]
    /\ siCalled = [p \in Procs |-> 0]
    /\ siResult = [p \in Procs |-> None]
    /\ result = [p \in Procs |-> None]
    /\ log = [p \in Procs |-> <<>>]
    /\ files = [n \in Paths |-> NoFile]
    /\ messages = {}
    /\ nextId = 1

\* a transport constructed with its default timeout; the facade at rest
Init ==
    /\ constructed = <<DEFAULT_TIMEOUT>>
    /\ timeout = HttpClient_init(constructed)
    /\ tcalls = <<>>
    /\ FacadeInit

\* a transport constructed with any timeout
TransportInit ==
    /\ constructed \in Timeouts
    /\ timeout = HttpClient_init(constructed)
    /\ tcalls = <<>>
    /\ FacadeInit

Next ==
    \E p \in Procs :
        \/ SWU_Call(p)
        \/ SWU_Get(p)
        \/ SWU_CheckStatus(p)
        \/ SWU_Copy(p)
        \/ SWU_CopyFail(p)
        \/ SWU_Close(p)
        \/ SI_Call(p)
        \/ SI_SendMessage(p)
        \/ SI_OpenFile(p)
        \/ SI_Size(p)
        \/ SI_Post(p)
        \/ SI_Check(p)

TransportNext ==
    \E arg \in TimeoutArgs :
        \/ get(arg)
        \/ post(arg)

Spec == Init /\ [][Next]_vars

TransportSpec == TransportInit /\ [][TransportNext]_vars

\* ================================================================ claims

Count(p, kind) == Cardinality({i \in DOMAIN log[p] : log[p][i].kind = kind})

IsNotGet(e) == e.kind # "GET"

\* the requests of the call that sendImage issued
SILog(p) == SelectSeq(log[p], IsNotGet)

IsURLCall(p) == op[p] = "sendImageWithURL"

Success(st) == st \in 200..299

\* the call has its temporary file open for writing or not yet uploaded
InUse(p) ==
    /\ IsURLCall(p)
    /\ pc[p] \in {"copy", "si_send", "si_open", "si_size", "si_post"}

\* C1: sendImage returns True only when the media POST answered 201; on any
\* other status it raises the upload failure; once the media response is in,
\* the media POST is the last request of the call and the call has issued
\* exactly one placeholder message and one media POST.
C1_UploadStatusDecides ==
    \A p \in Procs :
        /\ siResult[p] = "True" => upStatus[p] = StatusCreated
        /\ (pc[p] = "done" /\ upStatus[p] # 0 /\ upStatus[p] # StatusCreated)
              => siResult[p] = UploadFailure
        /\ upStatus[p] # 0 =>
              /\ log[p][Len(log[p])].kind = "MEDIA"
              /\ Count(p, "MEDIA") = 1
              /\ Count(p, "MESSAGE") = 1

C1_Witness ==
    \E p \in Procs :
        /\ pc[p] = "done"
        /\ upStatus[p] = StatusOK
        /\ siResult[p] = UploadFailure

\* C2: when the streamed GET of sendImageWithURL answers a non-success
\* status the call ends with the download failure, sendImage is invoked zero
\* times, and the call sends neither a placeholder message nor a media POST.
C2_DownloadFailureSkipsUpload ==
    \A p \in Procs :
        (IsURLCall(p) /\ dlStatus[p] # 0 /\ ~Success(dlStatus[p])) =>
            /\ pc[p] \in {"status", "done"}
            /\ pc[p] = "done" => result[p] = DownloadFailure
            /\ siCalled[p] = 0
            /\ Count(p, "MESSAGE") = 0
            /\ Count(p, "MEDIA") = 0

C2_Witness ==
    \E p \in Procs :
        /\ IsURLCall(p)
        /\ pc[p] = "done"
        /\ dlStatus[p] = 404
        /\ result[p] = DownloadFailure

\* C3: every get/post call ran with its explicit timeout when one was given
\* and with the timeout the instance was constructed with otherwise, and the
\* instance's default timeout is still the constructed one after any calls.
C3_TimeoutPerCall ==
    /\ timeout = constructed
    /\ \A i \in DOMAIN tcalls :
          tcalls[i].timeout =
             IF tcalls[i].arg = NoTimeout THEN constructed ELSE tcalls[i].arg

C3_Witness ==
    /\ Len(tcalls) >= 2
    /\ tcalls[1].method = "GET"
    /\ tcalls[1].arg # NoTimeout
    /\ tcalls[1].arg # constructed
    /\ tcalls[2].method = "POST"
    /\ tcalls[2].arg = NoTimeout

\* C4: two concurrent sendImageWithURL calls never have the same temporary
\* path in use (being written, or written and not yet uploaded) at the same
\* time.
C4_NoSharedTempPath ==
    \A p, q \in Procs :
        (p # q /\ InUse(p) /\ InUse(q)) => path[p] # path[q]

\* C5: within one sendImage call the placeholder message comes first and
\* the media POST second, at most one of each; the oid of the media POST is
\* the identifier the placeholder of the same call returned, which no other
\* call was issued; a call that got a media response has sent both.
C5_PlaceholderThenUpload ==
    \A p \in Procs :
        LET l == SILog(p) IN
        /\ Len(l) <= 2
        /\ Len(l) >= 1 => (l[1].kind = "MESSAGE" /\ l[1].oid = M_id[p])
        /\ Len(l) = 2 => (l[2].kind = "MEDIA" /\ l[2].oid = l[1].oid)
        /\ siResult[p] \in {"True", UploadFailure} => Len(l) = 2
        /\ \A q \in Procs : \A i \in DOMAIN SILog(q) :
              (q # p /\ Len(l) = 2) => SILog(q)[i].oid # l[2].oid

C5_Witness ==
    \E p, q \in Procs :
        /\ p # q
        /\ Len(SILog(p)) = 2
        /\ Len(SILog(q)) = 2
        /\ M_id[p] > M_id[q]
        /\ siResult[q] = None

\* C6: sendImageWithURL completes without error only if the download
\* answered success, the whole body was copied, the placeholder was created
\* and the upload answered 201; a failed step ends the call with no later
\* step executed; a failure of sendImage reaches the caller as that failure.
C6_AllOrNothing ==
    \A p \in Procs :
        (IsURLCall(p) /\ pc[p] = "done") =>
            /\ result[p] # "running"
            /\ result[p] = None =>
                  /\ Success(dlStatus[p])
                  /\ stream[p] = <<>>
                  /\ wOffset[p] = Len(downloaded[p])
                  /\ M_id[p] \in messages
                  /\ upStatus[p] = StatusCreated
                  /\ siResult[p] = "True"
            /\ siResult[p] \notin {None, "True"} => result[p] = siResult[p]
            /\ dlStatus[p] = 0 => (result[p] = TransportFailure /\ log[p] = <<>>)
            /\ (dlStatus[p] # 0 /\ dlStatus[p] # StatusOK) =>
                  (result[p] = DownloadFailure /\ siCalled[p] = 0 /\ Len(log[p]) = 1)
            /\ (dlStatus[p] = StatusOK /\ siCalled[p] = 0) =>
                  (result[p] = IOError /\ Len(log[p]) = 1)
            /\ (siCalled[p] > 0 /\ M_id[p] = 0) =>
                  (result[p] = TransportFailure /\ Len(log[p]) = 1 /\ ~rOpen[p])
            /\ (M_id[p] # 0 /\ upStatus[p] = 0) =>
                  (result[p] = TransportFailure /\ Len(log[p]) = 2)
            /\ (upStatus[p] # 0 /\ upStatus[p] # StatusCreated) =>
                  result[p] = UploadFailure

C6_Witness ==
    \E p \in Procs :
        /\ IsURLCall(p)
        /\ pc[p] = "done"
        /\ siResult[p] = UploadFailure
        /\ result[p] = UploadFailure

\* C7: in sendImageWithURL, sendImage is invoked only after a 200 download
\* whose whole body this call has written and whose write handle is closed;
\* the file is never opened for reading while the call's write handle is
\* open.
C7_ClosedBeforeUpload ==
    \A p \in Procs :
        IsURLCall(p) =>
            /\ siCalled[p] > 0 =>
                  /\ dlStatus[p] = StatusOK
                  /\ ~wOpen[p]
                  /\ stream[p] = <<>>
                  /\ wOffset[p] = Len(downloaded[p])
            /\ rOpen[p] => ~wOpen[p]
            /\ wOpen[p] => pc[p] = "copy"

C7_Witness ==
    \E p \in Procs :
        /\ IsURLCall(p)
        /\ rOpen[p]
        /\ Len(downloaded[p]) = MaxBodyLen
        /\ wOffset[p] = MaxBodyLen

\* C8: the placeholder message a sendImage call created exists on the
\* server in every later state of the call, in particular when the upload
\* failure reaches the caller; no step removes a message.
C8_PlaceholderStays ==
    \A p \in Procs :
        /\ M_id[p] # 0 => M_id[p] \in messages
        /\ messages = 1..(nextId - 1)

C8_Witness ==
    \E p \in Procs :
        /\ pc[p] = "done"
        /\ result[p] = UploadFailure
        /\ M_id[p] \in messages

\* the call has opened its temporary file for writing
HasWritten(p) ==
    /\ IsURLCall(p)
    /\ dlStatus[p] = StatusOK
    /\ pc[p] # "status"

\* C9: a temporary file that sendImageWithURL has written exists at the
\* same path for the rest of the call and at its end, whatever the outcome
\* of the upload; no step removes a file; the step that raises the download
\* failure, and a GET that raises, leave every file as it was.
C9_TempFileStays ==
    [][/\ \A p \in Procs : HasWritten(p)' => files'[path'[p]] # NoFile
       /\ \A n \in Paths : files[n] # NoFile => files'[n] # NoFile
       /\ \A p \in Procs :
             (/\ IsURLCall(p)
              /\ pc[p] \in {"get", "status"}
              /\ pc'[p] = "done") => files' = files]_vars

C9_Witness ==
    \E p \in Procs :
        /\ IsURLCall(p)
        /\ pc[p] = "done"
        /\ result[p] = UploadFailure
        /\ files[path[p]] # NoFile

\* C10: for every sendImageWithURL call that reaches the media upload, the
\* file part of the upload is the body the same call downloaded and the
\* size field is the length of that body, in every interleaving.
C10_UploadsOwnDownload ==
    \A p \in Procs :
        IsURLCall(p) =>
            \A i \in DOMAIN log[p] :
                log[p][i].kind = "MEDIA" =>
                    /\ log[p][i].file = downloaded[p]
                    /\ log[p][i].size = Len(downloaded[p])

====
